---- MODULE Spec2Model ----
(***************************************************************************)
(* Model of the label placement core of the Matrix service rain            *)
(* (src/src/utils/serviceRain.ts): computeRegion, canFitInRegion,          *)
(* splitIntoTwoLines and placeWordIntoGrid, with the occupied-cell set     *)
(* the calls of one layout pass share.                                     *)
(*                                                                         *)
(* A JavaScript string is a sequence of one-character strings; a cell key  *)
(* is the string the code formats, "col,row".  A fraction is a pair        *)
(* <<num, den>> standing for the exact rational num/den.  An optional      *)
(* value (an omitted argument, undefined) is <<>> and a present one <<v>>. *)
(***************************************************************************)
EXTENDS Integers, Sequences, FiniteSets, TLC

VARIABLES
    cols,       \* grid width of the layout pass
    rows,       \* grid height of the layout pass
    region,     \* MatrixRegion of the layout pass: [startCol, endCol]
    blocked,    \* the occupied set the calls share: a set of keys "col,row"
    placed,     \* the successful placements so far, in call order
    rng,        \* hidden state of the generator behind Math.random()
    calls,      \* number of calls made in this pass
    args,       \* arguments of the most recent call (blocked: the set as passed)
    ret         \* [done |-> FALSE] before a call returned, else [done, value]

vars == <<cols, rows, region, blocked, placed, rng, calls, args, ret>>

(***************************************************************************)
(* Bounds of the model.                                                    *)
(***************************************************************************)
MaxDen == 10        \* fractions are k/d with d in 1..MaxDen
MaxGridCols == 12   \* computeRegion is applied to cols in 1..MaxGridCols
MaxTextLen == 5     \* texts given to the splitter have at most this length
MaxFitLen == 3      \* canFitInRegion is applied to lines of length 0..MaxFitLen
MaxFitCol == 5      \* and to start columns -1..MaxFitCol
MaxCalls == 3       \* calls of placeWordIntoGrid sharing one occupied set
RngPeriod == 3      \* number of states of the generator behind Math.random()
MaxWrapLen == 8     \* texts given to wrapTextToLines have at most this length
MaxWrapCols == 4    \* with maxCols in 0..MaxWrapCols
MaxWrapLines == 3   \* and maxLines in 0..MaxWrapLines
MaxRegionCol == 6   \* single calls are given regions that end on columns 0..MaxRegionCol
MaxLabels == 4      \* planServiceLayout is given at most this many labels
MaxPlanRows == 12   \* on grids of 0..MaxPlanRows rows
MaxKept == 3        \* label lists placed after their plan have at most this length

(***************************************************************************)
(* Math and String helpers of the JavaScript runtime.                      *)
(***************************************************************************)
Max(a, b) == IF a >= b THEN a ELSE b
Min(a, b) == IF a <= b THEN a ELSE b

\* Math.floor(num / den), den > 0
Floor(num, den) == num \div den

\* Math.round(num / den), den > 0: the nearest integer, halves towards +infinity
Round(num, den) == (2 * num + den) \div (2 * den)

\* the characters String.prototype.trimEnd and the regular expression \s remove
IsWhitespace(ch) == ch \in {" ", "\t"}

\* text.slice(from) and text.slice(0, to) for 0 <= from, to
SliceFrom(text, from) == SubSeq(text, from + 1, Len(text))
SliceTo(text, to) == SubSeq(text, 1, Min(to, Len(text)))

RECURSIVE TrimEnd(_)
TrimEnd(text) ==
    IF text # <<>> /\ IsWhitespace(text[Len(text)])
    THEN TrimEnd(SubSeq(text, 1, Len(text) - 1))
    ELSE text

\* text.replace(/^\s+/, "")
RECURSIVE TrimStart(_)
TrimStart(text) ==
    IF text # <<>> /\ IsWhitespace(text[1])
    THEN TrimStart(Tail(text))
    ELSE text

\* the template literal `${col},${row}`
Key(col, row) == ToString(col) \o "," \o ToString(row)

clampInt(v, lo, hi) == Max(lo, Min(hi, v))

(***************************************************************************)
(* computeRegion(cols, startFrac, endFrac)                                 *)
(***************************************************************************)
computeRegion_round(c, startFrac, endFrac) ==
    [startCol |-> Round(c * startFrac[1], startFrac[2]),
     endCol   |-> Round(c * endFrac[1], endFrac[2])]

computeRegion_ceil(c, startFrac, endFrac) ==
    [startCol |-> -Floor(-(c * startFrac[1]), startFrac[2]),
     endCol   |-> -Floor(-(c * endFrac[1]), endFrac[2])]

computeRegion(c, startFrac, endFrac) ==
    [startCol |-> Floor(c * startFrac[1], startFrac[2]),
     endCol   |-> Floor(c * endFrac[1], endFrac[2])]

(***************************************************************************)
(* canFitInRegion(textLen, startCol, row, blocked, region, margin, cols)   *)
(***************************************************************************)
canFitInRegion_offByOne(textLen, startCol, row, blk, reg, margin, c) ==
    IF startCol < reg.startCol + margin THEN FALSE
    ELSE IF startCol + textLen - 1 > reg.endCol - margin THEN FALSE
    ELSE IF startCol < 0 \/ startCol + textLen - 1 >= c THEN FALSE
    ELSE \A i \in 0..(textLen - 2) : Key(startCol + i, row) \notin blk

canFitInRegion_noEnd(textLen, startCol, row, blk, reg, margin, c) ==
    IF startCol < reg.startCol + margin THEN FALSE
    ELSE IF startCol < 0 \/ startCol + textLen - 1 >= c THEN FALSE
    ELSE \A i \in 0..(textLen - 1) : Key(startCol + i, row) \notin blk

canFitInRegion(textLen, startCol, row, blk, reg, margin, c) ==
    IF startCol < reg.startCol + margin THEN FALSE
    ELSE IF startCol + textLen - 1 > reg.endCol - margin THEN FALSE
    ELSE IF startCol < 0 \/ startCol + textLen - 1 >= c THEN FALSE
    ELSE \A i \in 0..(textLen - 1) : Key(startCol + i, row) \notin blk

(***************************************************************************)
(* splitIntoTwoLines(text, maxLen)                                         *)
(***************************************************************************)
\* the backward scan of lines 112-120: the index the text is broken at
RECURSIVE ScanBreak_noHyphen(_, _)
ScanBreak_noHyphen(text, i) ==
    IF i < 1 THEN -1
    ELSE IF text[i + 1] = " " THEN i
    ELSE ScanBreak_noHyphen(text, i - 1)

RECURSIVE ScanBreak(_, _)
ScanBreak(text, i) ==
    IF i < 1 THEN -1
    ELSE IF text[i + 1] = " " \/ text[i + 1] = "-" THEN i
    ELSE ScanBreak(text, i - 1)

BreakAt_uncapped(text, maxLen) ==
    LET breakAt == ScanBreak(text, Len(text) - 1)
    IN  IF breakAt = -1 THEN maxLen ELSE breakAt

BreakAt(text, maxLen) ==
    LET breakAt == ScanBreak(text, Min(maxLen, Len(text) - 1))
    IN  IF breakAt = -1 THEN maxLen ELSE breakAt

splitIntoTwoLines_strict(text, maxLen) ==
    IF Len(text) < maxLen THEN [lines |-> <<text>>, wrapped |-> FALSE]
    ELSE LET breakAt == BreakAt(text, maxLen)
             first == TrimEnd(SliceTo(text, breakAt))
             rest == TrimStart(SliceFrom(text, breakAt))
         IN  [lines |-> <<first, rest>>, wrapped |-> TRUE]

splitIntoTwoLines(text, maxLen) ==
    IF Len(text) <= maxLen THEN [lines |-> <<text>>, wrapped |-> FALSE]
    ELSE LET breakAt == BreakAt(text, maxLen)
             first == TrimEnd(SliceTo(text, breakAt))
             rest == TrimStart(SliceFrom(text, breakAt))
         IN  [lines |-> <<first, rest>>, wrapped |-> TRUE]

(***************************************************************************)
(* wrapTextToLines(text, maxCols, maxLines)                                *)
(***************************************************************************)
\* String(text).split(/\s+/).filter(Boolean): the maximal runs of characters
\* that are not whitespace, in the order of the text
WordStarts(text) ==
    {i \in 1..Len(text) : ~IsWhitespace(text[i]) /\ (i = 1 \/ IsWhitespace(text[i - 1]))}

WordEnd(text, i) ==
    CHOOSE j \in i..Len(text) :
        /\ \A k \in i..j : ~IsWhitespace(text[k])
        /\ (j = Len(text) \/ IsWhitespace(text[j + 1]))

Words(text) ==
    LET starts == WordStarts(text)
        NthStart(n) == CHOOSE s \in starts : Cardinality({t \in starts : t < s}) = n - 1
    IN  [n \in 1..Cardinality(starts) |-> SubSeq(text, NthStart(n), WordEnd(text, NthStart(n)))]

\* line 133: the current line with the word appended
JoinWord(current, w) == IF Len(current) > 0 THEN current \o <<" ">> \o w ELSE w

\* line 134: the joined line is accepted
JoinFits_loose(join, maxCols) == Len(join) <= maxCols + 1

JoinFits(join, maxCols) == Len(join) <= maxCols

\* lines 132-141: the loop over the words from word k on; it ends after the
\* last word or at the break, with the lines emitted and the line in progress
RECURSIVE WrapLoop(_, _, _, _, _, _)
WrapLoop(words, k, lines, current, maxCols, maxLines) ==
    IF k > Len(words) THEN [lines |-> lines, current |-> current]
    ELSE
    LET w == words[k]
        join == JoinWord(current, w)
        pushed == IF Len(current) > 0 THEN Append(lines, current) ELSE lines
    IN  IF JoinFits(join, maxCols)
        THEN WrapLoop(words, k + 1, lines, join, maxCols, maxLines)
        ELSE IF Len(pushed) >= maxLines - 1
        THEN [lines |-> pushed, current |-> w]
        ELSE WrapLoop(words, k + 1, pushed, w, maxCols, maxLines)

wrapTextToLines(text, maxCols, maxLines) ==
    LET end == WrapLoop(Words(text), 1, <<>>, <<>>, maxCols, maxLines)
    IN  IF Len(end.current) > 0 /\ Len(end.lines) < maxLines
        THEN Append(end.lines, end.current)
        ELSE end.lines

(***************************************************************************)
(* placeWordIntoGrid(text, cols, rows, blocked, fontSize, idx, total,      *)
(*                   region, opts)                                         *)
(***************************************************************************)
margin == 1
LINE_GAP_ROWS == 1
top == 2
SweepFloor == 40

Null == [isNull |-> TRUE]

Bottom(r) == Max(3, r - 3)
RegionCols(reg) == Max(1, reg.endCol - reg.startCol + 1)
MaxLineLen(reg) == Max(1, RegionCols(reg) - margin * 2)

\* lines 182-184: the planner's lines when given, else the splitter's; two at most
ChooseLines_noSlice(text, reg, opts) ==
    IF opts.lines # <<>> /\ Len(opts.lines[1]) > 0
    THEN opts.lines[1]
    ELSE splitIntoTwoLines(text, MaxLineLen(reg)).lines

ChooseLines(text, reg, opts) ==
    LET providedLines ==
            IF opts.lines # <<>> /\ Len(opts.lines[1]) > 0
            THEN <<SliceTo(opts.lines[1], 2)>> ELSE <<>>
        initialLines ==
            IF providedLines # <<>> THEN providedLines[1]
            ELSE splitIntoTwoLines(text, MaxLineLen(reg)).lines
    IN  SliceTo(initialLines, 2)

\* lines 186-200: the row of the first line before any sweep
InitialBaseRow_ignoreOpts(r, idx, total, opts, nLines) ==
    LET bottom == Bottom(r)
        bands == Max(1, total)
        span == bottom - top
        baseRow ==
            IF bands = 1 THEN Floor(top + bottom, 2)
            ELSE clampInt(top + Round(idx * span, bands - 1), top, bottom)
    IN  IF nLines = 2 /\ baseRow + 1 > bottom THEN Max(2, bottom - 1) ELSE baseRow

InitialBaseRow(r, idx, total, opts, nLines) ==
    LET bottom == Bottom(r)
        bands == Max(1, total)
        span == bottom - top
        baseRow ==
            IF opts.baseRow # <<>> THEN clampInt(opts.baseRow[1], top, bottom)
            ELSE IF bands = 1 THEN Floor(top + bottom, 2)
            ELSE clampInt(top + Round(idx * span, bands - 1), top, bottom)
    IN  IF nLines = 2 /\ baseRow + 1 > bottom THEN Max(2, bottom - 1) ELSE baseRow

\* lines 206-209: the clamped ideal start column of a line
IdealStartCol_ceil(len, reg, c) ==
    LET idealStart == reg.startCol - Floor(-(RegionCols(reg) - len), 2)
        minStart == reg.startCol + margin
        maxStart == reg.endCol - margin - len + 1
    IN  clampInt(idealStart, minStart, Min(maxStart, c - len))

IdealStartCol(len, reg, c) ==
    LET idealStart == reg.startCol + Floor(RegionCols(reg) - len, 2)
        minStart == reg.startCol + margin
        maxStart == reg.endCol - margin - len + 1
    IN  clampInt(idealStart, minStart, Min(maxStart, c - len))

\* the least element of a non-empty set of integers
Least(S) == CHOOSE x \in S : \A y \in S : x <= y

\* lines 215-237: the loop tries off = 1, 2, .. sweepMax and stops at the first
\* offset whose left or right column fits, the left one first.
\* <<the column found>>, or <<>> when the sweep is exhausted
HorizontalSweep_floorOnly(len, startCol, row, blk, reg, c) ==
    LET sweepMax == SweepFloor
        minStart == reg.startCol + margin
        maxStart == reg.endCol - margin - len + 1
        Fits(col) ==
            /\ col >= minStart
            /\ col <= maxStart
            /\ canFitInRegion(len, col, row, blk, reg, margin, c)
        hits == {off \in 1..sweepMax : Fits(startCol - off) \/ Fits(startCol + off)}
        first == Least(hits)
    IN  IF hits = {} THEN <<>>
        ELSE IF Fits(startCol - first) THEN <<startCol - first>>
        ELSE <<startCol + first>>

HorizontalSweep(len, startCol, row, blk, reg, c) ==
    LET sweepMax == Max(RegionCols(reg), SweepFloor)
        minStart == reg.startCol + margin
        maxStart == reg.endCol - margin - len + 1
        Fits(col) ==
            /\ col >= minStart
            /\ col <= maxStart
            /\ canFitInRegion(len, col, row, blk, reg, margin, c)
        hits == {off \in 1..sweepMax : Fits(startCol - off) \/ Fits(startCol + off)}
        first == Least(hits)
    IN  IF hits = {} THEN <<>>
        ELSE IF Fits(startCol - first) THEN <<startCol - first>>
        ELSE <<startCol + first>>

\* lines 239-252: the loop tries vOff = 1, 2, .. rows - 1 and stops at the first
\* offset whose candidate baseRow - vOff or baseRow + vOff fits, the upper one first.
\* <<the base row found>>, or <<>> when no candidate row fits
VerticalSweep_upOnly(li, nLines, len, startCol, baseRow, blk, reg, c, r) ==
    LET Fits(cand) ==
            /\ ~(nLines = 2 /\ (cand < top \/ cand + 1 > Bottom(r)))
            /\ canFitInRegion(len, startCol,
                              cand + (IF li = 0 THEN 0 ELSE LINE_GAP_ROWS),
                              blk, reg, margin, c)
        hits == {vOff \in 1..(r - 1) : Fits(baseRow - vOff)}
    IN  IF hits = {} THEN <<>> ELSE <<baseRow - Least(hits)>>

VerticalSweep_downFirst(li, nLines, len, startCol, baseRow, blk, reg, c, r) ==
    LET Fits(cand) ==
            /\ ~(nLines = 2 /\ (cand < top \/ cand + 1 > Bottom(r)))
            /\ canFitInRegion(len, startCol,
                              cand + (IF li = 0 THEN 0 ELSE LINE_GAP_ROWS),
                              blk, reg, margin, c)
        hits == {vOff \in 1..(r - 1) : Fits(baseRow - vOff) \/ Fits(baseRow + vOff)}
        first == Least(hits)
    IN  IF hits = {} THEN <<>>
        ELSE IF Fits(baseRow + first) THEN <<baseRow + first>>
        ELSE <<baseRow - first>>

VerticalSweep_noBand(li, nLines, len, startCol, baseRow, blk, reg, c, r) ==
    LET Fits(cand) ==
            canFitInRegion(len, startCol,
                           cand + (IF li = 0 THEN 0 ELSE LINE_GAP_ROWS),
                           blk, reg, margin, c)
        hits == {vOff \in 1..(r - 1) : Fits(baseRow - vOff) \/ Fits(baseRow + vOff)}
        first == Least(hits)
    IN  IF hits = {} THEN <<>>
        ELSE IF Fits(baseRow - first) THEN <<baseRow - first>>
        ELSE <<baseRow + first>>

VerticalSweep(li, nLines, len, startCol, baseRow, blk, reg, c, r) ==
    LET Fits(cand) ==
            /\ ~(nLines = 2 /\ (cand < top \/ cand + 1 > Bottom(r)))
            /\ canFitInRegion(len, startCol,
                              cand + (IF li = 0 THEN 0 ELSE LINE_GAP_ROWS),
                              blk, reg, margin, c)
        hits == {vOff \in 1..(r - 1) : Fits(baseRow - vOff) \/ Fits(baseRow + vOff)}
        first == Least(hits)
    IN  IF hits = {} THEN <<>>
        ELSE IF Fits(baseRow - first) THEN <<baseRow - first>>
        ELSE <<baseRow + first>>

\* lines 202-257: the loop over the lines, from line li on; starts holds the
\* columns accepted so far, also when the loop gives up (solved = FALSE)
RECURSIVE PlaceLines(_, _, _, _, _, _, _, _)
PlaceLines(li, lines, baseRow, starts, blk, reg, c, r) ==
    IF ~(li < Len(lines)) THEN [solved |-> TRUE, baseRow |-> baseRow, starts |-> starts]
    ELSE
    LET len == Len(lines[li + 1])
        startCol == IdealStartCol(len, reg, c)
        row == baseRow + (IF li = 0 THEN 0 ELSE LINE_GAP_ROWS)
        fits == canFitInRegion(len, startCol, row, blk, reg, margin, c)
        swept == HorizontalSweep(len, startCol, row, blk, reg, c)
        moved == VerticalSweep(li, Len(lines), len, startCol, baseRow, blk, reg, c, r)
    IN  IF fits
        THEN PlaceLines(li + 1, lines, baseRow, Append(starts, startCol), blk, reg, c, r)
        ELSE IF swept # <<>>
        THEN PlaceLines(li + 1, lines, baseRow, Append(starts, swept[1]), blk, reg, c, r)
        ELSE IF moved # <<>>
        THEN PlaceLines(li + 1, lines, moved[1], Append(starts, startCol), blk, reg, c, r)
        ELSE [solved |-> FALSE, baseRow |-> baseRow, starts |-> starts]

\* lines 202-257: the base row in force when the loop reaches its second
\* line; <<>> when the loop gave up on the first line
BaseRowAtSecondLine(lines, baseRow, blk, reg, c, r) ==
    LET len == Len(lines[1])
        startCol == IdealStartCol(len, reg, c)
    IN  IF \/ canFitInRegion(len, startCol, baseRow, blk, reg, margin, c)
           \/ HorizontalSweep(len, startCol, baseRow, blk, reg, c) # <<>>
        THEN <<baseRow>>
        ELSE VerticalSweep(0, Len(lines), len, startCol, baseRow, blk, reg, c, r)

\* lines 261-265: the meta line of every line, at the final base row
MetaLines(lines, starts, baseRow) ==
    [li \in 1..Len(lines) |->
        [text |-> lines[li], startCol |-> starts[li],
         row |-> baseRow + (IF li = 1 THEN 0 ELSE LINE_GAP_ROWS)]]

\* the cells (col, row) a meta line covers, spaces included
LineCells(ln) == {<<ln.startCol + i, ln.row>> : i \in 0..(Len(ln.text) - 1)}

\* lines 266-274, blocked.add: every cell of every line is marked
MarkCells_skipSpaces(blk, metaLines) ==
    blk \cup UNION {{Key(metaLines[li].startCol + i, metaLines[li].row) :
                        i \in {j \in 0..(Len(metaLines[li].text) - 1) :
                                  metaLines[li].text[j + 1] # " "}} :
                    li \in DOMAIN metaLines}

MarkCells(blk, metaLines) ==
    blk \cup UNION {{Key(metaLines[li].startCol + i, metaLines[li].row) :
                        i \in 0..(Len(metaLines[li].text) - 1)} :
                    li \in DOMAIN metaLines}

\* Math.random(): the generator yields rng / RngPeriod, a number in [0, 1),
\* and moves on to its next state
RngNext(g, n) == (g + n) % RngPeriod

\* -100 - Math.random() * 300 as the exact fraction <<num, den>>
InitialTy(g) == <<-(100 * RngPeriod + 300 * g), RngPeriod>>

\* the characters of a meta line with their cells, in the order of the loop
LineGlyphs(ln) ==
    [i \in 1..Len(ln.text) |->
        [char |-> ln.text[i], col |-> ln.startCol + (i - 1), row |-> ln.row]]

RECURSIVE Glyphs(_)
Glyphs(metaLines) ==
    IF metaLines = <<>> THEN <<>>
    ELSE LineGlyphs(Head(metaLines)) \o Glyphs(Tail(metaLines))

\* lines 259-274, letters.push: one letter per character that is not a space
BuildLetters_offsetInY(metaLines, fontSize, g) ==
    LET inked == SelectSeq(Glyphs(metaLines), LAMBDA gl : gl.char # " ")
    IN  [k \in 1..Len(inked) |->
            [char |-> inked[k].char,
             x |-> inked[k].col * fontSize,
             y |-> inked[k].row * fontSize
                   + Floor(InitialTy(RngNext(g, k - 1))[1], RngPeriod),
             ty |-> InitialTy(RngNext(g, k - 1)),
             locked |-> FALSE]]

BuildLetters(metaLines, fontSize, g) ==
    LET inked == SelectSeq(Glyphs(metaLines), LAMBDA gl : gl.char # " ")
    IN  [k \in 1..Len(inked) |->
            [char |-> inked[k].char,
             x |-> inked[k].col * fontSize,
             y |-> inked[k].row * fontSize,
             ty |-> InitialTy(RngNext(g, k - 1)),
             locked |-> FALSE]]

\* the whole call: the value returned, the occupied set and the generator it leaves
placeWordIntoGrid_partialMark(text, c, r, blk, fontSize, idx, total, reg, opts, g) ==
    IF text = <<>> \/ c = 0 \/ r = 0 THEN [value |-> Null, blocked |-> blk, rng |-> g]
    ELSE
    LET lines == ChooseLines(text, reg, opts)
        baseRow == InitialBaseRow(r, idx, total, opts, Len(lines))
        found == PlaceLines(0, lines, baseRow, <<>>, blk, reg, c, r)
        metaLines == MetaLines(SliceTo(lines, Len(found.starts)), found.starts,
                               found.baseRow)
        letters == BuildLetters(metaLines, fontSize, g)
    IN  IF ~found.solved
        THEN [value |-> Null, blocked |-> MarkCells(blk, metaLines), rng |-> g]
        ELSE [value |-> [isNull |-> FALSE, text |-> text, letters |-> letters,
                         meta |-> [lines |-> metaLines]],
              blocked |-> MarkCells(blk, metaLines),
              rng |-> RngNext(g, Len(letters))]

placeWordIntoGrid(text, c, r, blk, fontSize, idx, total, reg, opts, g) ==
    IF text = <<>> \/ c = 0 \/ r = 0 THEN [value |-> Null, blocked |-> blk, rng |-> g]
    ELSE
    LET lines == ChooseLines(text, reg, opts)
        baseRow == InitialBaseRow(r, idx, total, opts, Len(lines))
        found == PlaceLines(0, lines, baseRow, <<>>, blk, reg, c, r)
        metaLines == MetaLines(lines, found.starts, found.baseRow)
        letters == BuildLetters(metaLines, fontSize, g)
    IN  IF ~found.solved
        THEN [value |-> Null, blocked |-> blk, rng |-> g]
        ELSE [value |-> [isNull |-> FALSE, text |-> text, letters |-> letters,
                         meta |-> [lines |-> metaLines]],
              blocked |-> MarkCells(blk, metaLines),
              rng |-> RngNext(g, Len(letters))]

(***************************************************************************)
(* planServiceLayout(services, cols, rows, region, margin)                 *)
(***************************************************************************)
\* reading plan[-1].baseRow of an empty plan at line 81 throws a TypeError
PlanThrows == [threw |-> TRUE]

\* line 56
Available(r) == Max(0, Bottom(r) - top + 1)

\* line 60: the lines of every label
LineData(services, reg, m) ==
    LET maxLineLen == Max(1, RegionCols(reg) - m * 2)
    IN  [i \in 1..Len(services) |->
            SliceTo(splitIntoTwoLines(services[i], maxLineLen).lines, 2)]

\* line 61
BlockHeights(lineData) ==
    [i \in 1..Len(lineData) |-> IF Len(lineData[i]) = 2 THEN 2 ELSE 1]

\* line 62
RECURSIVE SumSeq(_)
SumSeq(q) == IF q = <<>> THEN 0 ELSE Head(q) + SumSeq(Tail(q))

\* lines 68-77: the walk from label i (counted from 0) on
RECURSIVE PlanWalk_noHeight(_, _, _, _, _, _, _)
PlanWalk_noHeight(i, cursor, extra, plan, lineData, blockHeights, gapRows) ==
    IF ~(i < Len(lineData)) THEN plan
    ELSE PlanWalk_noHeight(i + 1,
                           cursor + 1 + gapRows + (IF extra > 0 THEN 1 ELSE 0),
                           IF extra > 0 THEN extra - 1 ELSE extra,
                           Append(plan, [lines |-> lineData[i + 1], baseRow |-> cursor]),
                           lineData, blockHeights, gapRows)

RECURSIVE PlanWalk_noExtra(_, _, _, _, _, _, _)
PlanWalk_noExtra(i, cursor, extra, plan, lineData, blockHeights, gapRows) ==
    IF ~(i < Len(lineData)) THEN plan
    ELSE PlanWalk_noExtra(i + 1,
                          cursor + blockHeights[i + 1] + gapRows,
                          extra,
                          Append(plan, [lines |-> lineData[i + 1], baseRow |-> cursor]),
                          lineData, blockHeights, gapRows)

RECURSIVE PlanWalk(_, _, _, _, _, _, _)
PlanWalk(i, cursor, extra, plan, lineData, blockHeights, gapRows) ==
    IF ~(i < Len(lineData)) THEN plan
    ELSE PlanWalk(i + 1,
                  cursor + blockHeights[i + 1] + gapRows + (IF extra > 0 THEN 1 ELSE 0),
                  IF extra > 0 THEN extra - 1 ELSE extra,
                  Append(plan, [lines |-> lineData[i + 1], baseRow |-> cursor]),
                  lineData, blockHeights, gapRows)

\* lines 79-86: the upward shift of a plan that ends below bottom
ShiftUp_skipped(plan, lastHeight, r) == plan

ShiftUp_unclamped(plan, lastHeight, r) ==
    LET overflow == plan[Len(plan)].baseRow + lastHeight - 1 - Bottom(r)
    IN  IF overflow > 0
        THEN [i \in 1..Len(plan) |->
                [plan[i] EXCEPT !.baseRow = plan[i].baseRow - overflow]]
        ELSE plan

ShiftUp(plan, lastHeight, r) ==
    LET overflow == plan[Len(plan)].baseRow + lastHeight - 1 - Bottom(r)
    IN  IF overflow > 0
        THEN [i \in 1..Len(plan) |->
                [plan[i] EXCEPT !.baseRow = Max(top, plan[i].baseRow - overflow)]]
        ELSE plan

planServiceLayout(services, c, r, reg, m) ==
    LET lineData == LineData(services, reg, m)
        blockHeights == BlockHeights(lineData)
        sumBlocks == SumSeq(blockHeights)
        gaps == Max(0, Len(services) - 1)
        leftover == Max(0, Available(r) - sumBlocks)
        gapRows == IF gaps > 0 THEN Floor(leftover, gaps) ELSE 0
        extra == IF gaps > 0 THEN leftover % gaps ELSE 0
        plan == PlanWalk(0, top, extra, <<>>, lineData, blockHeights, gapRows)
    IN  IF services = <<>> THEN PlanThrows
        ELSE ShiftUp(plan, blockHeights[Len(services)], r)

(***************************************************************************)
(* The layout pass: one grid, one region, one occupied set shared by the   *)
(* calls of placeWordIntoGrid, which the caller makes one after the other. *)
(***************************************************************************)
\* the grids and regions of a pass
Grids ==
    { [cols |-> 4, rows |-> 7, region |-> [startCol |-> 0, endCol |-> 3]],
      [cols |-> 5, rows |-> 4, region |-> [startCol |-> 0, endCol |-> 7]],
      [cols |-> 0, rows |-> 7, region |-> [startCol |-> 0, endCol |-> 0]],
      [cols |-> 4, rows |-> 0, region |-> [startCol |-> 0, endCol |-> 3]] }

\* the labels, planner lines and base rows the caller passes
Labels == { <<>>, <<"a", "a">>, <<"a", " ", "a">> }
OptLines == { <<>>, << <<<<"a">>, <<"a", "a", "a">>, <<"a">>>> >> }
OptBaseRows == { <<>>, <<9>> }
Totals == {1, 2}
FontSize == 20

NoOpts == [lines |-> <<>>, baseRow |-> <<>>]
NotCalled == [done |-> FALSE]

Init ==
    /\ \E g \in Grids : cols = g.cols /\ rows = g.rows /\ region = g.region
    /\ blocked = {}
    /\ placed = <<>>
    /\ rng \in 0..(RngPeriod - 1)
    /\ calls = 0
    /\ args = [text |-> <<>>, idx |-> 0, total |-> 0, opts |-> NoOpts, blocked |-> {}]
    /\ ret = NotCalled

\* one call of placeWordIntoGrid on the shared set; the caller keeps a placement
PlaceWord(text, idx, total, opts) ==
    /\ calls < MaxCalls
    /\ \E r \in {placeWordIntoGrid(text, cols, rows, blocked, FontSize, idx, total,
                                   region, opts, rng)} :
           /\ args' = [text |-> text, idx |-> idx, total |-> total, opts |-> opts,
                       blocked |-> blocked]
           /\ ret' = [done |-> TRUE, value |-> r.value]
           /\ blocked' = r.blocked
           /\ rng' = r.rng
           /\ placed' = IF r.value.isNull THEN placed ELSE Append(placed, r.value)
    /\ calls' = calls + 1
    /\ UNCHANGED <<cols, rows, region>>

Next ==
    \E text \in Labels, total \in Totals, opts \in [lines : OptLines, baseRow : OptBaseRows] :
        \E idx \in 0..(total - 1) :
            PlaceWord(text, idx, total, opts)

Spec == Init /\ [][Next]_vars

(***************************************************************************)
(* Claims about placeWordIntoGrid on the shared occupied set (Spec).       *)
(***************************************************************************)
Returned == ret.done
Succeeded == ret.done /\ ~ret.value.isNull
Failed == ret.done /\ ret.value.isNull

\* the cells (col, row) of all meta lines of a placement
PlacementCells(p) == UNION {LineCells(p.meta.lines[li]) : li \in DOMAIN p.meta.lines}
CellKeys(cells) == {Key(cell[1], cell[2]) : cell \in cells}

\* C1: when a call returns a Placement, no cell of any returned meta line
\* (spaces included) was a member of the occupied set at the time of the call.
C1_NoCellOccupiedAtCall ==
    Succeeded => \A cell \in PlacementCells(ret.value) :
                     Key(cell[1], cell[2]) \notin args.blocked

\* C2: starting from an empty occupied set, the cell sets claimed by any two
\* distinct successful placements sharing the set are disjoint.
C2_PlacementsDisjoint ==
    \A i \in DOMAIN placed : \A j \in DOMAIN placed :
        i < j => PlacementCells(placed[i]) \cap PlacementCells(placed[j]) = {}

\* C3: when a call returns a Placement, the occupied set after the call is the
\* set before the call united with exactly the cells of every returned meta
\* line, the cells of space characters included.
C3_OccupiedGrowsByLineCells ==
    Succeeded => blocked = args.blocked \cup CellKeys(PlacementCells(ret.value))

\* a placement with a space inside a line has just been added to the set
C3_Witness ==
    /\ Succeeded
    /\ \E li \in DOMAIN ret.value.meta.lines :
           \E i \in DOMAIN ret.value.meta.lines[li].text :
               ret.value.meta.lines[li].text[i] = " "
    /\ args.blocked # {}
    /\ blocked # args.blocked

\* C4: whenever a call returns null, on invalid input or after exhausting the
\* sweeps, the occupied set is exactly what it was before the call.
C4_NullLeavesOccupied ==
    Failed => blocked = args.blocked

\* a valid two-line call on a non-empty set gave up after both sweeps of its
\* second line, its first line having been accepted
C4_Witness ==
    /\ Failed
    /\ args.text # <<>> /\ cols # 0 /\ rows # 0
    /\ args.blocked # {}
    /\ LET lines == ChooseLines(args.text, region, args.opts)
           baseRow == InitialBaseRow(rows, args.idx, args.total, args.opts, Len(lines))
       IN  /\ Len(lines) = 2
           /\ Len(PlaceLines(0, lines, baseRow, <<>>, args.blocked, region,
                             cols, rows).starts) = 1

\* C5: every meta line of a successful call lies inside the region margins
\* and the grid width.
C5_LinesInsideRegionAndGrid ==
    Succeeded =>
        \A li \in DOMAIN ret.value.meta.lines :
            LET ln == ret.value.meta.lines[li]
                len == Len(ln.text)
            IN  /\ region.startCol + 1 <= ln.startCol
                /\ ln.startCol + len - 1 <= region.endCol - 1
                /\ ln.startCol >= 0
                /\ ln.startCol + len - 1 < cols

\* a two-line placement into a set that already blocked cells, in a region
\* that reaches beyond the grid, with a line ending on the last grid column
C5_Witness ==
    /\ Succeeded
    /\ Len(ret.value.meta.lines) = 2
    /\ args.blocked # {}
    /\ region.endCol - 1 >= cols
    /\ \E li \in DOMAIN ret.value.meta.lines :
           ret.value.meta.lines[li].startCol + Len(ret.value.meta.lines[li].text) = cols

(***************************************************************************)
(* The pure functions, each applied once to inputs drawn from bounded      *)
(* sets.  The variables of the layout pass stay at rest.                   *)
(***************************************************************************)
PassAtRest ==
    /\ cols = 0 /\ rows = 0 /\ region = [startCol |-> 0, endCol |-> 0]
    /\ blocked = {} /\ placed = <<>> /\ rng = 0 /\ calls = 0

PassUnchanged == UNCHANGED <<cols, rows, region, blocked, placed, rng, calls>>

\* ---- computeRegion ----
Fractions == UNION {{<<n, d>> : n \in 0..d} : d \in 1..MaxDen}
FracLeq(s, e) == s[1] * e[2] <= e[1] * s[2]
IsOne(f) == f[1] = f[2]
GridWidths == (1..MaxGridCols) \cup {40, 100, 120}

InitRegion ==
    /\ PassAtRest
    /\ args \in {a \in [cols : GridWidths, startFrac : Fractions, endFrac : Fractions] :
                    FracLeq(a.startFrac, a.endFrac)}
    /\ ret = NotCalled

ComputeRegionCall ==
    /\ ~ret.done
    /\ ret' = [done |-> TRUE,
               value |-> computeRegion(args.cols, args.startFrac, args.endFrac)]
    /\ UNCHANGED args
    /\ PassUnchanged

SpecRegion == InitRegion /\ [][ComputeRegionCall]_vars

\* n = floor(c * f) for the fraction f = <<num, den>>
IsFloorOf(n, c, f) == n * f[2] <= c * f[1] /\ c * f[1] < (n + 1) * f[2]

\* C7: for cols > 0 and fractions 0 <= s <= e <= 1, computeRegion returns
\* startCol = floor(cols*s) and endCol = floor(cols*e), (100, 0.5, 0.8) gives
\* {50, 80}, and startCol <= endCol.
C7_RegionIsFloorOfProduct ==
    ret.done =>
        /\ IsFloorOf(ret.value.startCol, args.cols, args.startFrac)
        /\ IsFloorOf(ret.value.endCol, args.cols, args.endFrac)
        /\ ret.value.startCol <= ret.value.endCol
        /\ (args = [cols |-> 100, startFrac |-> <<5, 10>>, endFrac |-> <<8, 10>>]
                => ret.value = [startCol |-> 50, endCol |-> 80])

\* computeRegion(100, 0.5, 0.8) has returned
C7_Witness ==
    /\ ret.done
    /\ args = [cols |-> 100, startFrac |-> <<5, 10>>, endFrac |-> <<8, 10>>]
    /\ ret.value.startCol < ret.value.endCol

FitBlockedSets == SUBSET {Key(1, 0), Key(2, 0), Key(3, 0), Key(2, 1)}
FitRegions ==
    { [startCol |-> 0, endCol |-> 4], [startCol |-> 1, endCol |-> 5],
      [startCol |-> -1, endCol |-> 3] }
FitScenarios ==
    { [textLen |-> 4, startCol |-> 52, row |-> 10, blocked |-> {},
       region |-> [startCol |-> 50, endCol |-> 80], margin |-> 1, cols |-> 120],
      [textLen |-> 8, startCol |-> 78, row |-> 10, blocked |-> {},
       region |-> [startCol |-> 50, endCol |-> 80], margin |-> 1, cols |-> 120],
      [textLen |-> 4, startCol |-> 74, row |-> 10, blocked |-> {},
       region |-> computeRegion(120, <<6, 10>>, <<9, 10>>), margin |-> 1, cols |-> 120],
      [textLen |-> 8, startCol |-> 106, row |-> 10, blocked |-> {},
       region |-> computeRegion(120, <<6, 10>>, <<9, 10>>), margin |-> 1, cols |-> 120] }

InitFit ==
    /\ PassAtRest
    /\ args \in [textLen : 0..MaxFitLen, startCol : (-1)..MaxFitCol, row : {0, 1},
                 blocked : FitBlockedSets, region : FitRegions, margin : {0, 1, 2},
                 cols : {3, 5, 6}] \cup FitScenarios
    /\ ret = NotCalled

CanFitCall ==
    /\ ~ret.done
    /\ ret' = [done |-> TRUE,
               value |-> canFitInRegion(args.textLen, args.startCol, args.row,
                                        args.blocked, args.region, args.margin,
                                        args.cols)]
    /\ UNCHANGED args
    /\ PassUnchanged

SpecFit == InitFit /\ [][CanFitCall]_vars

\* C6: canFitInRegion returns false if and only if the line starts before
\* region.startCol + margin, or ends after region.endCol - margin, or starts
\* before column 0, or ends at or after cols, or covers an occupied cell; the
\* 4-long line two columns inside the region start fits an empty set, the
\* 8-long line starting two columns before the region end does not.
C6_FitCheckerContract ==
    ret.done =>
        /\ ret.value = FALSE <=>
               \/ args.startCol < args.region.startCol + args.margin
               \/ args.startCol + args.textLen - 1 > args.region.endCol - args.margin
               \/ args.startCol < 0
               \/ args.startCol + args.textLen - 1 >= args.cols
               \/ \E i \in 0..(args.textLen - 1) :
                      Key(args.startCol + i, args.row) \in args.blocked
        /\ ret.value \in BOOLEAN
        /\ (args \in FitScenarios => (ret.value <=> args.textLen = 4))

\* a line was refused only because its last cell is occupied
C6_Witness ==
    /\ ret.done /\ ret.value = FALSE
    /\ args.textLen >= 2
    /\ args.startCol >= args.region.startCol + args.margin
    /\ args.startCol + args.textLen - 1 <= args.region.endCol - args.margin
    /\ args.startCol >= 0
    /\ args.startCol + args.textLen - 1 < args.cols
    /\ \A i \in 0..(args.textLen - 2) :
           Key(args.startCol + i, args.row) \notin args.blocked

\* ---- splitIntoTwoLines ----
Alphabet == {"a", " ", "-", "\t"}
SplitTexts == UNION {[1..n -> Alphabet] : n \in 0..MaxTextLen}

InitSplit ==
    /\ PassAtRest
    /\ args \in [text : SplitTexts, maxLen : 1..MaxTextLen]
    /\ ret = NotCalled

SplitCall ==
    /\ ~ret.done
    /\ ret' = [done |-> TRUE, value |-> splitIntoTwoLines(args.text, args.maxLen)]
    /\ UNCHANGED args
    /\ PassUnchanged

SpecSplit == InitSplit /\ [][SplitCall]_vars

\* C9: splitIntoTwoLines returns at most two lines; exactly {[text], false}
\* when text.length <= maxLen, and exactly two lines with wrapped true when
\* text.length > maxLen.
C9_SplitShape ==
    ret.done =>
        /\ Len(ret.value.lines) <= 2
        /\ Len(args.text) <= args.maxLen
               => ret.value = [lines |-> <<args.text>>, wrapped |-> FALSE]
        /\ Len(args.text) > args.maxLen
               => Len(ret.value.lines) = 2 /\ ret.value.wrapped = TRUE

\* a text one character longer than maxLen was wrapped at a space
C9_Witness ==
    /\ ret.done
    /\ Len(args.text) = args.maxLen + 1
    /\ ret.value.wrapped
    /\ Len(ret.value.lines) = 2
    /\ Len(ret.value.lines[1]) + Len(ret.value.lines[2]) < Len(args.text)

\* C10 as stated: every line returned by splitIntoTwoLines has length <= maxLen.
C10_EveryLineFits ==
    ret.done => \A i \in DOMAIN ret.value.lines : Len(ret.value.lines[i]) <= args.maxLen

\* C10 as amended: the first line returned has length <= maxLen; the second
\* line of a wrapped result is the rest of the text, which can be longer than
\* maxLen, and has at most text.length - 1 characters.
C10_FirstLineFits ==
    ret.done =>
        /\ Len(ret.value.lines[1]) <= args.maxLen
        /\ ret.value.wrapped => Len(ret.value.lines[2]) <= Len(args.text) - 1

\* a wrapped result whose second line is longer than maxLen
C10_Witness ==
    /\ ret.done
    /\ ret.value.wrapped
    /\ Len(ret.value.lines[1]) = args.maxLen
    /\ Len(ret.value.lines[2]) > args.maxLen

\* ---- wrapTextToLines ----
WrapAlphabet == {"a", " "}
WrapTexts == UNION {[1..n -> WrapAlphabet] : n \in 0..MaxWrapLen}

\* "a ".repeat(200), 10, 5
ScenarioE ==
    [text |-> [i \in 1..400 |-> IF i % 2 = 1 THEN "a" ELSE " "],
     maxCols |-> 10, maxLines |-> 5]

InitWrap ==
    /\ PassAtRest
    /\ args \in [text : WrapTexts, maxCols : 0..MaxWrapCols, maxLines : 0..MaxWrapLines]
                    \cup {ScenarioE}
    /\ ret = NotCalled

WrapCall ==
    /\ ~ret.done
    /\ ret' = [done |-> TRUE,
               value |-> wrapTextToLines(args.text, args.maxCols, args.maxLines)]
    /\ UNCHANGED args
    /\ PassUnchanged

SpecWrap == InitWrap /\ [][WrapCall]_vars

\* C11: for every text, every maxCols and every maxLines >= 0, wrapTextToLines
\* returns a list with at most maxLines entries; "a ".repeat(200) at 10 columns
\* and 5 lines gives at most 5 lines.
C11_AtMostMaxLines ==
    ret.done => Len(ret.value) <= args.maxLines

\* C12: every line returned by wrapTextToLines has length <= maxCols, unless
\* it is one single word longer than maxCols; a line of two or more words
\* never exceeds maxCols.
C12_LinesFitUnlessOneWord ==
    ret.done =>
        \A i \in DOMAIN ret.value :
            \/ Len(ret.value[i]) <= args.maxCols
            \/ /\ Len(Words(ret.value[i])) = 1
               /\ Words(ret.value[i])[1] = ret.value[i]

\* the result holds a line of two words that fills maxCols exactly and a line
\* made of one word longer than maxCols
C12_Witness ==
    /\ ret.done
    /\ \E i \in DOMAIN ret.value :
           Len(Words(ret.value[i])) >= 2 /\ Len(ret.value[i]) = args.maxCols
    /\ \E i \in DOMAIN ret.value :
           Len(Words(ret.value[i])) = 1 /\ Len(ret.value[i]) > args.maxCols

(***************************************************************************)
(* One call of placeWordIntoGrid on drawn arguments, and the same call     *)
(* made again on an equal occupied set (SpecPlace).                        *)
(***************************************************************************)
PlaceGrids ==
    { [cols |-> 6, rows |-> 7], [cols |-> 4, rows |-> 4], [cols |-> 1, rows |-> 1],
      [cols |-> 0, rows |-> 7], [cols |-> 6, rows |-> 0] }
PlaceRegions ==
    {[startCol |-> s, endCol |-> e] : s \in (-1)..2, e \in 0..MaxRegionCol}
PlaceBlockedSets == { {}, {Key(2, 3)}, {Key(1, 3), Key(2, 3), Key(3, 3), Key(4, 3)} }
PlaceTexts == { <<>>, <<"a", "a">>, <<"a", " ", "a", "a">>, <<"a", "a", "-", "a", "a", "a">> }
PlaceOptLines ==
    { <<>>, << <<>> >>, << <<<<"a", "a">>>> >>, << <<<<>>, <<"a">>>> >>,
      << <<<<"a">>, <<"a", "a", "a">>, <<"a">>>> >> }
PlaceOptBaseRows == { <<>>, <<9>> }
PlaceOrdinals == { <<0, 1>>, <<1, 2>>, <<0, 0>> }

InitPlace ==
    /\ \E g \in PlaceGrids : cols = g.cols /\ rows = g.rows
    /\ region \in PlaceRegions
    /\ blocked \in PlaceBlockedSets
    /\ placed = <<>>
    /\ rng \in 0..(RngPeriod - 1)
    /\ calls = 0
    /\ \E text \in PlaceTexts, ord \in PlaceOrdinals,
          opts \in [lines : PlaceOptLines, baseRow : PlaceOptBaseRows] :
           args = [text |-> text, idx |-> ord[1], total |-> ord[2], opts |-> opts,
                   blocked |-> blocked]
    /\ ret = NotCalled

\* the call on the occupied set of the pass
PlaceOnce ==
    /\ calls = 0
    /\ \E r \in {placeWordIntoGrid(args.text, cols, rows, blocked, FontSize, args.idx,
                                   args.total, region, args.opts, rng)} :
           /\ ret' = [done |-> TRUE, value |-> r.value]
           /\ blocked' = r.blocked
           /\ rng' = r.rng
           /\ placed' = IF r.value.isNull THEN placed ELSE Append(placed, r.value)
    /\ calls' = 1
    /\ UNCHANGED <<cols, rows, region, args>>

\* the same call again, on a set equal to the one the first call was given;
\* the generator behind Math.random() has moved on
PlaceAgain ==
    /\ calls = 1
    /\ \E r \in {placeWordIntoGrid(args.text, cols, rows, args.blocked, FontSize,
                                   args.idx, args.total, region, args.opts, rng)} :
           /\ ret' = [done |-> TRUE, value |-> ret.value,
                      again |-> [value |-> r.value, blocked |-> r.blocked]]
           /\ rng' = r.rng
    /\ calls' = 2
    /\ UNCHANGED <<cols, rows, region, blocked, placed, args>>

NextPlace == PlaceOnce \/ PlaceAgain

SpecPlace == InitPlace /\ [][NextPlace]_vars

\* the lines of the call and the row of the first one before any sweep
CallLines == ChooseLines(args.text, region, args.opts)
CallBaseRow == InitialBaseRow(rows, args.idx, args.total, args.opts, Len(CallLines))

\* the precondition of C13
FreeAndWideEnough ==
    /\ args.blocked = {}
    /\ cols >= 1 /\ rows >= 1
    /\ 0 <= region.startCol /\ region.startCol <= region.endCol /\ region.endCol <= cols
    /\ args.text # <<>>
    /\ \A li \in DOMAIN CallLines :
           Len(CallLines[li]) <= (region.endCol - region.startCol + 1) - 2

\* C13: with an empty occupied set, cols >= 1, rows >= 1, a region with
\* 0 <= startCol <= endCol <= cols and a non-empty text whose lines each have
\* length <= regionCols - 2, placeWordIntoGrid returns a Placement with 1 or 2
\* meta lines, each at its ideal centred column
\* region.startCol + floor((regionCols - len) / 2), on the rows chosen before
\* any sweep.
C13_FreeRegionPlacesAtIdeal ==
    (Returned /\ FreeAndWideEnough) =>
        /\ ~ret.value.isNull
        /\ Len(ret.value.meta.lines) \in {1, 2}
        /\ \A li \in DOMAIN ret.value.meta.lines :
               LET ln == ret.value.meta.lines[li]
                   regionCols == region.endCol - region.startCol + 1
               IN  /\ ln.startCol = region.startCol + Floor(regionCols - Len(ln.text), 2)
                   /\ ln.row = CallBaseRow + (li - 1)

\* a text split in two lines was placed into a free region that is wide enough
C13_Witness ==
    /\ Returned /\ FreeAndWideEnough
    /\ args.opts.lines = <<>>
    /\ ~ret.value.isNull
    /\ Len(ret.value.meta.lines) = 2
    /\ ret.value.meta.lines[1].startCol # ret.value.meta.lines[2].startCol

\* C14 as stated: without opts.lines a successful result has exactly one meta
\* line if text.length <= max(1, regionCols - 2) and exactly two otherwise;
\* with opts.lines supplied it has min(2, opts.lines.length) meta lines; it
\* never has more than two.
C14_LineCount ==
    Succeeded =>
        LET n == Len(ret.value.meta.lines)
            regionCols == Max(1, region.endCol - region.startCol + 1)
        IN  /\ n <= 2
            /\ args.opts.lines = <<>> =>
                   n = IF Len(args.text) <= Max(1, regionCols - 2) THEN 1 ELSE 2
            /\ args.opts.lines # <<>> => n = Min(2, Len(args.opts.lines[1]))

\* C14 as amended: a successful result has min(2, opts.lines.length) meta
\* lines when opts.lines is supplied and not empty; when opts.lines is omitted
\* or is the empty list it has exactly one meta line if
\* text.length <= max(1, regionCols - 2) and exactly two otherwise; it never
\* has more than two.
C14_LineCountOfNonEmptyOpts ==
    Succeeded =>
        LET n == Len(ret.value.meta.lines)
            regionCols == Max(1, region.endCol - region.startCol + 1)
            given == args.opts.lines # <<>> /\ args.opts.lines[1] # <<>>
        IN  /\ n <= 2
            /\ ~given => n = IF Len(args.text) <= Max(1, regionCols - 2) THEN 1 ELSE 2
            /\ given => n = Min(2, Len(args.opts.lines[1]))

\* an empty opts.lines was supplied with a label too wide for the region, and
\* the result has the splitter's two lines
C14_Witness ==
    /\ Succeeded
    /\ args.opts.lines = << <<>> >>
    /\ Len(args.text) > Max(1, region.endCol - region.startCol + 1 - 2)
    /\ Len(ret.value.meta.lines) = 2

LetterAtRest(l) == [char |-> l.char, x |-> l.x, y |-> l.y, locked |-> l.locked]

PlanLabels == { <<"a">>, <<"a", "a", "a">>, <<"a", "a", "a", "a">>, <<"a", "a", " ", "a", "a">> }
PlanServices == UNION {[1..n -> PlanLabels] : n \in 0..MaxLabels}
PlanRegions ==
    { [startCol |-> 0, endCol |-> 4], [startCol |-> 2, endCol |-> 7],
      [startCol |-> 3, endCol |-> 3] }

InitPlan ==
    /\ PassAtRest
    /\ args \in [services : PlanServices, cols : {8}, rows : 0..MaxPlanRows,
                 region : PlanRegions, margin : {0, 1}]
    /\ ret = NotCalled

PlanCall ==
    /\ ~ret.done
    /\ ret' = [done |-> TRUE,
               value |-> planServiceLayout(args.services, args.cols, args.rows,
                                           args.region, args.margin)]
    /\ UNCHANGED args
    /\ PassUnchanged

SpecPlan == InitPlan /\ [][PlanCall]_vars

\* a plan was returned for a non-empty label list on a grid with rows >= 1
Planned == ret.done /\ args.services # <<>> /\ args.rows >= 1

\* the block height of step i of the returned plan, and the rows of the band
HeightOf(i) == IF Len(ret.value[i].lines) = 2 THEN 2 ELSE 1
BandRows == Max(3, args.rows - 3) - 2 + 1
SumOfHeights == SumSeq([i \in DOMAIN ret.value |-> HeightOf(i)])

\* the gap the planner computes: floor(leftover / gaps)
GapRowsOfPlan ==
    IF Len(args.services) > 1
    THEN Max(0, BandRows - SumOfHeights) \div (Len(args.services) - 1)
    ELSE 0

TwoOfSameLength ==
    /\ Planned
    /\ Len(args.services) = 2
    /\ Len(args.services[1]) = Len(args.services[2])

\* C15 as stated: for two labels of the same length, the planned base rows
\* differ by at least the combined block height of the two labels plus the
\* computed gap.
C15_RowsDifferByCombinedHeight ==
    TwoOfSameLength =>
        ret.value[2].baseRow - ret.value[1].baseRow
            >= HeightOf(1) + HeightOf(2) + GapRowsOfPlan

\* C15 as amended: for two labels of the same length whose block heights sum
\* to at most the rows of the band, the planned base rows differ by exactly
\* the first label's block height plus the computed gap; when the two blocks
\* do not fit the band they differ by the rows of the band minus 2.
C15_RowsDifferByOwnHeight ==
    TwoOfSameLength =>
        ret.value[2].baseRow - ret.value[1].baseRow
            = IF SumOfHeights <= BandRows THEN HeightOf(1) + GapRowsOfPlan
              ELSE BandRows - 2

\* two labels of two lines each were planned with a gap between them
C15_Witness ==
    /\ TwoOfSameLength
    /\ HeightOf(1) = 2
    /\ GapRowsOfPlan > 0
    /\ ret.value[2].baseRow - ret.value[1].baseRow = 2 + GapRowsOfPlan

\* C16 as stated: in every plan the row ranges of distinct labels do not
\* overlap: for all i < j, baseRow[i] + blockHeight[i] - 1 < baseRow[j].
C16_PlannedRangesDisjoint ==
    Planned =>
        \A i \in DOMAIN ret.value : \A j \in DOMAIN ret.value :
            i < j => ret.value[i].baseRow + HeightOf(i) - 1 < ret.value[j].baseRow

\* C16 as amended: in every plan whose block heights sum to at most the rows
\* of the band (bottom - top + 1), the row ranges of distinct labels do not
\* overlap; a plan with more block rows than the band has is shifted up and
\* clamped at top, and holds two labels whose row ranges overlap.
C16_PlannedRangesDisjointIfTheyFit ==
    Planned =>
        (SumOfHeights <= BandRows <=>
            \A i \in DOMAIN ret.value : \A j \in DOMAIN ret.value :
                i < j => ret.value[i].baseRow + HeightOf(i) - 1 < ret.value[j].baseRow)

\* three labels, one of them on two lines, fill the band exactly
C16_Witness ==
    /\ Planned
    /\ Len(args.services) = 3
    /\ SumOfHeights = 4 /\ BandRows = 4
    /\ ret.value[3].baseRow + HeightOf(3) - 1 = Max(3, args.rows - 3)

\* C17: every step of a plan lies in the usable band: baseRow >= top = 2 and
\* baseRow + blockHeight - 1 <= bottom = max(3, rows - 3).
C17_PlanInsideBand ==
    Planned =>
        \A i \in DOMAIN ret.value :
            /\ ret.value[i].baseRow >= 2
            /\ ret.value[i].baseRow + HeightOf(i) - 1 <= Max(3, args.rows - 3)

\* a plan that ran past bottom was shifted up: a step was clamped at top and
\* the last label ends on bottom
C17_Witness ==
    /\ Planned
    /\ SumOfHeights > BandRows
    /\ Len(args.services) >= 3
    /\ ret.value[2].baseRow = 2
    /\ ret.value[Len(ret.value)].baseRow + HeightOf(Len(ret.value)) - 1
           = Max(3, args.rows - 3)

(***************************************************************************)
(* The break position of splitIntoTwoLines (SpecSplit).                    *)
(***************************************************************************)
\* the indices 1 <= i <= min(maxLen, text.length - 1) holding a space or hyphen
BreakCandidates ==
    {i \in 1..Min(args.maxLen, Len(args.text) - 1) : args.text[i + 1] \in {" ", "-"}}

\* the break index C20 names
NamedBreak ==
    IF BreakCandidates = {} THEN args.maxLen
    ELSE CHOOSE i \in BreakCandidates : \A j \in BreakCandidates : j <= i

AllWhitespace(q) == \A k \in DOMAIN q : IsWhitespace(q[k])

\* C20: for text.length > maxLen >= 1, splitIntoTwoLines breaks at the largest
\* index i with 1 <= i <= min(maxLen, text.length - 1) such that text[i] is a
\* space or a hyphen, and at index maxLen when there is none; the first line
\* is text[0..break) without its trailing whitespace, the second line is
\* text[break..] without its leading whitespace.
C20_BreakAtLastSpaceOrHyphen ==
    (ret.done /\ Len(args.text) > args.maxLen) =>
        LET head == SubSeq(args.text, 1, NamedBreak)
            rest == SubSeq(args.text, NamedBreak + 1, Len(args.text))
            first == ret.value.lines[1]
            second == ret.value.lines[2]
        IN  /\ Len(ret.value.lines) = 2
            /\ Len(first) <= Len(head)
            /\ first = SubSeq(head, 1, Len(first))
            /\ AllWhitespace(SubSeq(head, Len(first) + 1, Len(head)))
            /\ first # <<>> => ~IsWhitespace(first[Len(first)])
            /\ Len(second) <= Len(rest)
            /\ second = SubSeq(rest, Len(rest) - Len(second) + 1, Len(rest))
            /\ AllWhitespace(SubSeq(rest, 1, Len(rest) - Len(second)))
            /\ second # <<>> => ~IsWhitespace(second[1])

\* a text with a space before a hyphen was broken at the hyphen: the hyphen
\* starts the second line and the space is trimmed off the first
C20_Witness ==
    /\ ret.done
    /\ Len(args.text) > args.maxLen
    /\ Cardinality(BreakCandidates) >= 2
    /\ NamedBreak < args.maxLen
    /\ ret.value.lines[2] # <<>> /\ ret.value.lines[2][1] = "-"
    /\ Len(ret.value.lines[1]) < NamedBreak

(***************************************************************************)
(* Keeping the planner's layout: the labels of one list are planned once   *)
(* and placed in order on one occupied set, each with the lines and the    *)
(* base row of its step (SpecKeep).                                        *)
(***************************************************************************)
KeepGrids ==
    { [cols |-> 8, rows |-> 7], [cols |-> 8, rows |-> 9], [cols |-> 8, rows |-> 0],
      [cols |-> 5, rows |-> 12] }
KeepRegions ==
    { [startCol |-> 0, endCol |-> 7], [startCol |-> 2, endCol |-> 8],
      [startCol |-> 1, endCol |-> 4], [startCol |-> 3, endCol |-> 9] }
KeepLabels ==
    { <<>>, <<"a">>, <<"a", "a", "a", "a">>, <<"a", "a", " ", "a", "a">>,
      <<"a", "a", "a", "a", "a", "a", "a">> }
KeepServices == UNION {[1..n -> KeepLabels] : n \in 1..MaxKept}

InitKeep ==
    /\ \E g \in KeepGrids : cols = g.cols /\ rows = g.rows
    /\ region \in KeepRegions
    /\ blocked = {}
    /\ placed = <<>>
    /\ rng \in 0..(RngPeriod - 1)
    /\ calls = 0
    /\ args \in [services : KeepServices, plan : {<<>>}]
    /\ ret = <<>>

\* the plan of the whole label list, computed once
PlanOnce ==
    /\ args.plan = <<>>
    /\ args' = [args EXCEPT
                   !.plan = <<planServiceLayout(args.services, cols, rows, region, 1)>>]
    /\ UNCHANGED <<cols, rows, region, blocked, placed, rng, calls, ret>>

\* the call for the next label, with the lines and the base row of its step;
\* ret collects what every call returned
KeepNext ==
    /\ args.plan # <<>>
    /\ calls < Len(args.services)
    /\ LET idx == calls
           step == args.plan[1][idx + 1]
       IN  \E r \in {placeWordIntoGrid(args.services[idx + 1], cols, rows, blocked,
                                        FontSize, idx, Len(args.services), region,
                                        [lines |-> <<step.lines>>,
                                         baseRow |-> <<step.baseRow>>], rng)} :
               /\ ret' = Append(ret, r.value)
               /\ blocked' = r.blocked
               /\ rng' = r.rng
               /\ placed' = IF r.value.isNull THEN placed ELSE Append(placed, r.value)
    /\ calls' = calls + 1
    /\ UNCHANGED <<cols, rows, region, args>>

NextKeep == PlanOnce \/ KeepNext

SpecKeep == InitKeep /\ [][NextKeep]_vars

\* the plan of the pass and what C19 asks of it
ThePlan == args.plan[1]
PlanHeights == [i \in DOMAIN ThePlan |-> IF Len(ThePlan[i].lines) = 2 THEN 2 ELSE 1]
PlanFitsBandAndRegion ==
    /\ args.plan # <<>>
    /\ SumSeq(PlanHeights) <= Max(3, rows - 3) - 2 + 1
    /\ \A i \in DOMAIN ThePlan : \A k \in DOMAIN ThePlan[i].lines :
           Len(ThePlan[i].lines[k]) <= (region.endCol - region.startCol + 1) - 2
    /\ 0 <= region.startCol /\ region.startCol <= region.endCol /\ region.endCol <= cols

\* call i returned a placement that keeps step i of the plan
KeepsStep(i) ==
    /\ ~ret[i].isNull
    /\ Len(ret[i].meta.lines) = Len(ThePlan[i].lines)
    /\ \A k \in DOMAIN ThePlan[i].lines :
           /\ ret[i].meta.lines[k].text = ThePlan[i].lines[k]
           /\ ret[i].meta.lines[k].row = ThePlan[i].baseRow + (k - 1)

\* C19 as stated: starting from an empty occupied set and placing labels
\* 0..N-1 in order with the lines and base row of their plan steps, if the
\* block heights sum to at most the rows of the band, every planned line has
\* length <= regionCols - 2 and the region lies inside the grid, then every
\* call succeeds and placement i has the texts of plan[i].lines on the rows
\* plan[i].baseRow + k.
C19_PlanIsKept ==
    PlanFitsBandAndRegion => \A i \in DOMAIN ret : KeepsStep(i)

\* C19 as amended: the same, for a grid with rows >= 1 and labels that are
\* not the empty string.
C19_PlanIsKeptForLabelsOnAGrid ==
    (/\ PlanFitsBandAndRegion
     /\ rows >= 1
     /\ \A i \in DOMAIN args.services : args.services[i] # <<>>)
        => \A i \in DOMAIN ret : KeepsStep(i)

\* three labels, one of them planned on two lines, were all placed as planned
C19_Witness ==
    /\ PlanFitsBandAndRegion
    /\ rows >= 1
    /\ \A i \in DOMAIN args.services : args.services[i] # <<>>
    /\ Len(args.services) = 3
    /\ Len(ret) = 3
    /\ \E i \in DOMAIN ThePlan : Len(ThePlan[i].lines) = 2
    /\ \A i \in DOMAIN ret : KeepsStep(i)

(***************************************************************************)
(* The gaps of a plan and the planner on every label list (SpecPlan).      *)
(***************************************************************************)
\* a plan of two or more labels whose blocks fit the band
FitsWithGaps ==
    /\ ret.done
    /\ Len(args.services) >= 2
    /\ SumOfHeights <= BandRows

LeftoverOfPlan == BandRows - SumOfHeights

\* C21: when the block heights sum to at most available = bottom - top + 1
\* and there are N >= 2 labels, baseRow[0] = 2 and, for each i < N - 1,
\* baseRow[i+1] - baseRow[i] = blockHeight[i] + floor(leftover / (N - 1))
\* + (1 if i < leftover mod (N - 1), else 0); the last block ends exactly on
\* row bottom.
C21_GapsSpreadEarliestFirst ==
    FitsWithGaps =>
        LET N == Len(args.services)
        IN  /\ Len(ret.value) = N
            /\ ret.value[1].baseRow = 2
            /\ \A i \in 0..(N - 2) :
                   ret.value[i + 2].baseRow - ret.value[i + 1].baseRow
                       = HeightOf(i + 1) + (LeftoverOfPlan \div (N - 1))
                         + (IF i < LeftoverOfPlan % (N - 1) THEN 1 ELSE 0)
            /\ ret.value[N].baseRow + HeightOf(N) - 1 = Max(3, args.rows - 3)

\* a plan of three or more labels whose first gap is one row larger than its
\* last gap
C21_Witness ==
    /\ FitsWithGaps
    /\ Len(args.services) >= 3
    /\ LeftoverOfPlan % (Len(args.services) - 1) # 0
    /\ LET N == Len(args.services)
       IN  (ret.value[2].baseRow - ret.value[1].baseRow - HeightOf(1))
               = (ret.value[N].baseRow - ret.value[N - 1].baseRow - HeightOf(N - 1)) + 1

\* C30: planServiceLayout completes without raising and returns exactly
\* labels.length steps for every label list, the empty list included (an
\* empty sequence); step i holds the at most two lines obtained by splitting
\* label i at max(1, regionCols - 2 * margin).
C30_PlannerIsTotal ==
    ret.done =>
        /\ DOMAIN ret.value = 1..Len(args.services)
        /\ \A i \in 1..Len(args.services) :
               /\ Len(ret.value[i].lines) <= 2
               /\ ret.value[i].lines
                      = splitIntoTwoLines(
                            args.services[i],
                            Max(1, Max(1, args.region.endCol - args.region.startCol + 1)
                                       - 2 * args.margin)).lines

(***************************************************************************)
(* One call of placeWordIntoGrid on an occupied set drawn from the cells   *)
(* of the region, so that the sweeps of lines 213-254 run (SpecSweep).     *)
(***************************************************************************)
SweepGrids == { [cols |-> 5, rows |-> 8], [cols |-> 5, rows |-> 1] }
SweepRegion == [startCol |-> 0, endCol |-> 4]
SweepCells == {Key(c, r) : c \in 1..3, r \in 2..5}
SweepTexts == { <<"a">>, <<"a", "a">>, <<"a", "a", "a", "a">> }
SweepOptLines == { <<>>, << <<<<"a">>, <<"a", "a">>>> >> }
SweepOptBaseRows == { <<>>, <<2>>, <<5>> }

\* a region wider than the floor of the sweep bound, one row of it occupied
\* but for its first two columns
WideRegion == [startCol |-> 0, endCol |-> 90]
WideRow == {Key(c, 3) : c \in 3..89}

\* a grid whose middle column is occupied on every row but the last, and its
\* middle row on every column of the region
TallColumn == {Key(2, r) : r \in 0..6} \cup {Key(1, 3), Key(3, 3)}

SweepScenarios ==
    { [cols |-> 91, rows |-> 7, region |-> WideRegion, blocked |-> WideRow],
      [cols |-> 91, rows |-> 7, region |-> WideRegion,
       blocked |-> WideRow \ {Key(88, 3), Key(89, 3)}],
      [cols |-> 5, rows |-> 8, region |-> SweepRegion, blocked |-> TallColumn] }

InitSweep ==
    /\ placed = <<>>
    /\ rng \in 0..(RngPeriod - 1)
    /\ calls = 0
    /\ ret = NotCalled
    /\ \/ /\ \E g \in SweepGrids : cols = g.cols /\ rows = g.rows
          /\ region = SweepRegion
          /\ blocked \in SUBSET SweepCells
          /\ \E text \in SweepTexts,
                opts \in [lines : SweepOptLines, baseRow : SweepOptBaseRows] :
                 args = [text |-> text, idx |-> 0, total |-> 1, opts |-> opts,
                         blocked |-> blocked]
       \/ /\ \E sc \in SweepScenarios :
                 /\ cols = sc.cols /\ rows = sc.rows /\ region = sc.region
                 /\ blocked = sc.blocked
          /\ \E text \in SweepTexts :
                 args = [text |-> text, idx |-> 0, total |-> 1, opts |-> NoOpts,
                         blocked |-> blocked]

SpecSweep == InitSweep /\ [][PlaceOnce]_vars

\* canFitInRegion of the call, on the set the call was given
FitsAt(len, col, row) == canFitInRegion(len, col, row, args.blocked, region, 1, cols)

\* some start column fits the line on the row
SomeColumnFits(len, row) ==
    \E c \in (Min(0, region.startCol) - 1)..(Max(cols, region.endCol) + 1) :
        FitsAt(len, c, row)

ValidCall == args.text # <<>> /\ cols # 0 /\ rows # 0

\* the base row in force when the loop reaches line li (counted from 1)
TurnBase(li) ==
    IF li = 1 THEN <<CallBaseRow>>
    ELSE BaseRowAtSecondLine(CallLines, CallBaseRow, args.blocked, region, cols, rows)

\* the line at which the loop of a failed call gave up (counted from 1)
GaveUpAt ==
    Len(PlaceLines(0, CallLines, CallBaseRow, <<>>, args.blocked, region, cols, rows).starts) + 1

\* C22: when a line does not fit at its clamped ideal start column but some
\* start column of the same row fits, the line is placed in that row at a
\* fitting column of minimal distance from the clamped ideal column, the left
\* one when both fit at the same distance.
C22_SweptToNearestColumn ==
    Succeeded =>
        \A li \in DOMAIN ret.value.meta.lines :
            LET ln == ret.value.meta.lines[li]
                len == Len(ln.text)
                ideal == IdealStartCol(len, region, cols)
                row == TurnBase(li)[1] + (li - 1)
                dist == IF ln.startCol >= ideal THEN ln.startCol - ideal
                        ELSE ideal - ln.startCol
            IN  (~FitsAt(len, ideal, row) /\ SomeColumnFits(len, row)) =>
                    /\ ln.row = row
                    /\ FitsAt(len, ln.startCol, ln.row)
                    /\ \A d \in 0..(dist - 1) :
                           ~FitsAt(len, ideal - d, row) /\ ~FitsAt(len, ideal + d, row)
                    /\ FitsAt(len, ideal - dist, row) => ln.startCol = ideal - dist

\* C29: the loop falls through to the vertical sweep for a line only if no
\* start column fits the line on its row: when some column fits, the base row
\* is the same after the line's turn and the call does not fail on that line;
\* the bound max(regionCols, 40) cuts off no fitting column.
C29_HorizontalSweepExhaustive ==
    (Returned /\ ValidCall) =>
        \A li \in DOMAIN CallLines :
            (TurnBase(li) # <<>>
             /\ SomeColumnFits(Len(CallLines[li]), TurnBase(li)[1] + (li - 1))) =>
                IF li < Len(CallLines)
                THEN TurnBase(li + 1) = TurnBase(li)
                ELSE /\ ~ret.value.isNull
                     /\ ret.value.meta.lines[1].row = TurnBase(li)[1]

\* in a region wider than 40 columns a line was swept more than 40 columns
\* away from its ideal column and stayed on its row
C29_Witness ==
    /\ Succeeded
    /\ region.endCol - region.startCol + 1 > 40
    /\ LET ln == ret.value.meta.lines[1]
       IN  /\ ln.row = CallBaseRow
           /\ IdealStartCol(Len(ln.text), region, cols) - ln.startCol > 40

\* a candidate base row the vertical sweep does not skip
Eligible(cand) ==
    ~(Len(CallLines) = 2 /\ (cand < top \/ cand + 1 > Bottom(rows)))

\* the candidate base rows around b in the order up, down, for offsets 1..maxOff
CandidateRows(b, maxOff) ==
    [k \in 1..(2 * maxOff) |-> IF k % 2 = 1 THEN b - (k + 1) \div 2 ELSE b + k \div 2]

\* the base row after the turn of line li at base row b, as C23 names it: b
\* when some column fits on the row, else the first candidate that is not
\* skipped and fits at the pre-sweep column, else none
NamedTurn(li, b, maxOff) ==
    LET len == Len(CallLines[li])
        col == IdealStartCol(len, region, cols)
        q == CandidateRows(b, maxOff)
        hits == {k \in DOMAIN q : Eligible(q[k]) /\ FitsAt(len, col, q[k] + (li - 1))}
    IN  IF SomeColumnFits(len, b + (li - 1)) THEN <<b>>
        ELSE IF hits = {} THEN <<>>
        ELSE <<q[Least(hits)]>>

\* the base row of the result as C23 names it, <<>> for null
NamedBaseRow(maxOff) ==
    LET first == NamedTurn(1, CallBaseRow, maxOff)
    IN  IF first = <<>> \/ Len(CallLines) = 1 THEN first
        ELSE NamedTurn(2, first[1], maxOff)

\* C23 (as stated): when the horizontal sweep of a line fails, the candidate
\* base rows baseRow - 1, baseRow + 1, baseRow - 2, ... are tried for offsets
\* 1..rows, skipping those that put a two-line label outside the band, at the
\* pre-sweep column only; the first that fits becomes the base row and the
\* call returns null if none fits.
C23_VerticalSweepToOffsetRows ==
    (Returned /\ ValidCall) =>
        /\ ret.value.isNull <=> NamedBaseRow(rows) = <<>>
        /\ ~ret.value.isNull => ret.value.meta.lines[1].row = NamedBaseRow(rows)[1]

\* C23 (amended): the same for offsets 1..rows - 1.
C23_VerticalSweepBelowOffsetRows ==
    (Returned /\ ValidCall) =>
        /\ ret.value.isNull <=> NamedBaseRow(rows - 1) = <<>>
        /\ ~ret.value.isNull => ret.value.meta.lines[1].row = NamedBaseRow(rows - 1)[1]

\* a two-line label whose upward candidate was skipped or did not fit and
\* that was moved down by the vertical sweep
C23_Witness ==
    /\ Succeeded
    /\ Len(CallLines) = 2
    /\ ret.value.meta.lines[1].row > CallBaseRow
    /\ \E li \in 1..2 : ~SomeColumnFits(Len(CallLines[li]), TurnBase(li)[1] + (li - 1))

\* some base row of the band and some column for each line pass
\* canFitInRegion, the second line directly below the first
Placeable ==
    \E b \in top..Bottom(rows) :
        /\ Eligible(b)
        /\ \A li \in DOMAIN CallLines : SomeColumnFits(Len(CallLines[li]), b + (li - 1))

\* C24: a call on valid input returns null only when, for the line it gave
\* up on, no column fits on the line's row and the pre-sweep column fits on
\* no candidate row of the vertical sweep; other columns of the candidate
\* rows are not tried, so a null does not mean that no placement exists.
C24_NullMeansPreSweepColumnBlocked ==
    (Failed /\ ValidCall) =>
        LET li == GaveUpAt
            b == TurnBase(li)[1]
            len == Len(CallLines[li])
            col == IdealStartCol(len, region, cols)
        IN  /\ ~SomeColumnFits(len, b + (li - 1))
            /\ \A vOff \in 1..(rows - 1) : \A cand \in {b - vOff, b + vOff} :
                   Eligible(cand) => ~FitsAt(len, col, cand + (li - 1))

\* a call that returned null although a placement inside the band exists,
\* another column fitting on a candidate row of the line it gave up on
C24_Witness ==
    /\ Failed /\ ValidCall
    /\ Placeable
    /\ \E vOff \in 1..(rows - 1) : \E cand \in {TurnBase(GaveUpAt)[1] - vOff,
                                                 TurnBase(GaveUpAt)[1] + vOff} :
           /\ Eligible(cand)
           /\ SomeColumnFits(Len(CallLines[GaveUpAt]), cand + (GaveUpAt - 1))

\* C27: every meta line of a successful placement lies on the grid
\* vertically, 0 <= row < rows.
C27_RowsOnGrid ==
    Succeeded =>
        \A li \in DOMAIN ret.value.meta.lines :
            /\ 0 <= ret.value.meta.lines[li].row
            /\ ret.value.meta.lines[li].row < rows

\* C28: in every successful two-line placement the second line is directly
\* below the first and both rows lie in the band [top, bottom].
C28_TwoLinesInBand ==
    (Succeeded /\ Len(ret.value.meta.lines) = 2) =>
        /\ ret.value.meta.lines[2].row = ret.value.meta.lines[1].row + 1
        /\ top <= ret.value.meta.lines[1].row
        /\ ret.value.meta.lines[2].row <= Bottom(rows)

\* a two-line label requested below the band whose second line triggered a
\* vertical sweep
C28_Witness ==
    /\ Succeeded
    /\ Len(ret.value.meta.lines) = 2
    /\ args.opts.baseRow # <<>>
    /\ args.opts.baseRow[1] + 1 > Bottom(rows)
    /\ ret.value.meta.lines[1].row # TurnBase(2)[1]

(***************************************************************************)
(* The reveal scheduler of MatrixServiceRain: the measurement of the        *)
(* container and the timer tick that places the next label (SpecReveal,     *)
(* and SpecRevealFixed for a container that is not resized).  args holds the *)
(* label list with wRef, hRef, fsRef and planRef; cols, rows and placed are *)
(* colsRef, rowsRef and placedRef; blocked is blockedRef; region is the     *)
(* region a tick computes from colsRef and wRef; ret is the last call of    *)
(* placeWordIntoGrid with its index, label and occupied set.                *)
(***************************************************************************)
minFontSize == 16
maxFontSize == 36
fontScaleDivisor == 40
NarrowWidth == 900

\* the default label list of the component
DefaultServices ==
    << <<"S", "o", "c", "i", "a", "l", " ", "M", "e", "d", "i", "a">>,
       <<"W", "e", "b", "s", "i", "t", "e">>,
       <<"E", "m", "a", "i", "l">>,
       <<"A", "u", "t", "o", "m", "a", "t", "i", "o", "n">>,
       <<"A", "I", " ", "I", "m", "p", "l", "e", "m", "e", "n", "t", "a", "t", "i", "o", "n">>,
       <<"P", "r", "o", "s", "p", "e", "c", "t", "i", "n", "g", " ", "&", " ", "P", "i", "p", "e", "l", "i", "n", "e">> >>

\* the label lists and the container sizes (pixels) of getBoundingClientRect
RevealServices ==
    { DefaultServices, SubSeq(DefaultServices, 1, 2), SubSeq(DefaultServices, 5, 6), <<>> }
RevealWidths == {320, 640, 1000}
RevealHeights == {160, 480}

\* the region fractions of a tick: 0.52 and 0.96 below 900 pixels, else the
\* props regionStartFrac = 0.58 and regionEndFrac = 0.96
StartFrac(w) == IF w < NarrowWidth THEN <<13, 25>> ELSE <<29, 50>>
EndFrac(w) == <<24, 25>>

\* measure: the responsive font size and the grid of a container
FontSizeOf(w) == clampInt(Round(w, fontScaleDivisor), minFontSize, maxFontSize)
ColsOf(w) == Max(1, Floor(w, FontSizeOf(w)))
RowsOf(w, h) == Max(1, Floor(h, FontSizeOf(w)))

\* the occupied set a tick rebuilds from the placed labels: the cells of their
\* meta lines, or of their letters when a label has no meta line
TmpBlocked_lettersOnly(pl, fs) ==
    UNION { {Key(Floor(pl[k].letters[j].x, fs), Floor(pl[k].letters[j].y, fs)) :
                 j \in DOMAIN pl[k].letters} : k \in DOMAIN pl }

TmpBlocked(pl, fs) ==
    UNION { IF pl[k].meta.lines # <<>>
            THEN UNION { {Key(pl[k].meta.lines[li].startCol + i, pl[k].meta.lines[li].row) :
                              i \in 0..(Len(pl[k].meta.lines[li].text) - 1)} :
                         li \in DOMAIN pl[k].meta.lines }
            ELSE {Key(Floor(pl[k].letters[j].x, fs), Floor(pl[k].letters[j].y, fs)) :
                      j \in DOMAIN pl[k].letters}
            : k \in DOMAIN pl }

InitReveal ==
    /\ \E services \in RevealServices, w \in RevealWidths, h \in RevealHeights :
           /\ args = [services |-> services, w |-> w, h |-> h, fs |-> FontSizeOf(w),
                      plan |-> <<>>]
           /\ cols = ColsOf(w)
           /\ rows = RowsOf(w, h)
           /\ region = computeRegion(ColsOf(w), StartFrac(w), EndFrac(w))
    /\ blocked = {}
    /\ placed = <<>>
    /\ rng \in 0..(RngPeriod - 1)
    /\ calls = 0
    /\ ret = NotCalled

\* measure(), run by the ResizeObserver: a change of font size empties the
\* placed list, the occupied set and the plan
Measure ==
    \E w \in RevealWidths, h \in RevealHeights :
        LET fs == FontSizeOf(w)
            reflow == args.fs # fs
        IN  /\ args' = [args EXCEPT !.w = w, !.h = h, !.fs = fs,
                                    !.plan = IF reflow THEN <<>> ELSE @]
            /\ cols' = ColsOf(w)
            /\ rows' = RowsOf(w, h)
            /\ region' = computeRegion(ColsOf(w), StartFrac(w), EndFrac(w))
            /\ placed' = IF reflow THEN <<>> ELSE placed
            /\ blocked' = IF reflow THEN {} ELSE blocked
            /\ UNCHANGED <<rng, calls, ret>>

\* the setInterval callback up to its call of placeWordIntoGrid, for the label
\* that follows the placed ones: the region, the plan (computed when planRef
\* is null), the rebuilt occupied set, and the call
TickCall ==
    LET reg == computeRegion(cols, StartFrac(args.w), EndFrac(args.w))
        plan == IF args.plan = <<>>
                THEN planServiceLayout(args.services, cols, rows, reg, 1)
                ELSE args.plan[1]
        tmpBlocked == TmpBlocked(placed, args.fs)
        idx == Len(placed)
        name == args.services[idx + 1]
    IN  [reg |-> reg, plan |-> plan, blocked |-> tmpBlocked, idx |-> idx, name |-> name,
         out |-> placeWordIntoGrid(name, cols, rows, tmpBlocked, args.fs, idx,
                                   Len(args.services), reg,
                                   [lines |-> <<plan[idx + 1].lines>>,
                                    baseRow |-> <<plan[idx + 1].baseRow>>], rng)]

\* the setInterval callback
Tick ==
    IF Len(placed) >= Len(args.services) THEN UNCHANGED vars
    ELSE
        LET t == TickCall
        IN  /\ args' = [args EXCEPT !.plan = <<t.plan>>]
            /\ region' = t.reg
            /\ placed' = IF t.out.value.isNull THEN placed ELSE Append(placed, t.out.value)
            /\ rng' = t.out.rng
            /\ ret' = [done |-> TRUE, value |-> t.out.value, idx |-> t.idx,
                       name |-> t.name, blocked |-> t.blocked]
            /\ UNCHANGED <<cols, rows, blocked, calls>>

NextReveal == Tick \/ Measure

SpecReveal == InitReveal /\ [][NextReveal]_vars

\* the ticks of a container that is never resized
SpecRevealFixed == InitReveal /\ [][Tick]_vars

\* the cell keys of the meta lines of the labels placed so far
PlacedKeys == UNION {CellKeys(PlacementCells(placed[k])) : k \in DOMAIN placed}

\* what C25 says of one tick
TickInOrder ==
    /\ Len(placed') \in {Len(placed), Len(placed) + 1}
    /\ Len(placed) < Len(args.services) =>
           /\ ret'.done
           /\ ret'.idx = Len(placed)
           /\ ret'.name = args.services[Len(placed) + 1]
           /\ ret'.blocked = PlacedKeys
           /\ placed' = IF ret'.value.isNull THEN placed ELSE Append(placed, ret'.value)
    /\ Len(placed) >= Len(args.services) => placed' = placed

StuckAtNull ==
    /\ Failed
    /\ Len(placed) < Len(args.services)
    /\ TickCall.out.value.isNull
    /\ TickCall.out.rng = rng
    /\ args.plan = <<TickCall.plan>>
    /\ region = TickCall.reg
    /\ ret.idx = TickCall.idx /\ ret.name = TickCall.name /\ ret.blocked = TickCall.blocked

\* C26: in a container that is not resized a null result is temporary and
\* every label is eventually placed; so no tick that returned null is
\* followed only by ticks that repeat it and leave the state unchanged, the
\* tick being the only step of the scheduler.
C26_NullIsTemporary == ~StuckAtNull

====
